---- MODULE Spec2Model ----
(***************************************************************************)
(* Model of the pi-fast-bot repository: the unlock-triggered submission    *)
(* engine in its four source variants.                                     *)
(*                                                                         *)
(*   Sweeper  : src/unnamed/part_000 lines 48-271   (p99 fee, early submit *)
(*              wait, buildAndSign, submitWithRetries)                     *)
(*   Loop     : src/unnamed/part_000 lines 273-419  (per-balance retry     *)
(*              loop with fee bump and duplicate flood)                    *)
(*   Monitor  : src/unnamed/part_000 lines 421-1277 (unlock monitoring,    *)
(*              prepareAndSubmitTransaction, updateNetworkFees)            *)
(*   Flood    : src/pi-js-bot.js                    (executeFlood)         *)
(*                                                                         *)
(* Each variant has its own variables and its own specification; the       *)
(* variables of the other variants stay at their constructed values.       *)
(* Times are integer seconds, fees are integer stroops.                    *)
(***************************************************************************)
EXTENDS Integers, Sequences, FiniteSets, TLC

VARIABLES
    \* ---- Sweeper (part_000 lines 75-262)
    e_pc,           \* position of start() in its loop
    e_now,          \* Date.now() / 1000
    e_currentFee,   \* this.currentFee
    e_quote,        \* the currentFee that updateFeeStats set in this cycle
    e_balances,     \* records returned by getAllBalances() for this cycle
    e_idx,          \* index of `bal` in `for (const bal of balances)`
    e_wakeAt,       \* instant at which the pending setTimeout resolves
    e_attempt,      \* `attempt` of the fee-bump loop in submitWithRetries
    e_tx,           \* transaction returned by buildAndSign, or NoTx
    e_subs,         \* submissions issued for the current balance, in order:
                    \* fee of the envelope, outcome, operations of the inner tx
    \* ---- Loop (part_000 lines 293-410)
    l_pc,           \* position of start() in its loop
    l_currentFee,   \* this.currentFee
    l_count,        \* balances.length of this cycle
    l_idx,          \* index of `bal` in `for (const bal of balances)`
    l_attempt,      \* `attempt` of the per-balance while loop
    l_subs,         \* submissions issued for the current balance, in order:
                    \* fee, outcome, and which pass of the while loop built
                    \* and signed the transaction
    l_timers,       \* flood setTimeout callbacks armed and not yet run
    l_inflight,     \* flood submitTransaction promises not yet settled
    \* ---- Monitor (part_000 lines 465-1247)
    h_phase,        \* "new" until initialize() has run
    h_currentFee,   \* this.networkStats.currentFee
    h_cacheLoaded,  \* this.accountCache.sponsor !== null
    h_unlockBlock,  \* this.unlockData.unlockBlock
    h_lastLedger,   \* this.networkStats.lastLedger
    h_blockFeed,    \* block notifications are delivered to handleNewBlock
    h_monitor,      \* the unlock trigger of startMonitoring: armed / cleared
    h_prepareTimer, \* the prepare-only timer of startMonitoring
    h_status,       \* this.submissionStatus
    h_calls,        \* invocations of prepareAndSubmitTransaction in progress
    h_rounds,       \* submission rounds started so far
    h_lastFee,      \* fee carried by the latest submission round
    h_lastBuild,    \* the latest build: fee used, fee before its refresh,
                    \* whether its sponsor account was loaded by that refresh
                    \* or kept from the cache, whether it went on to submit
    \* ---- Flood (pi-js-bot.js, PiNetworkPrecisionClaimBot)
    f_baseFee,      \* this.baseFee: the value, and whether it is held as text
    f_isRunning,    \* this.isRunning
    f_phase,        \* position of executeFlood: idle / preparing / submitting / finished
    f_transactions, \* this.transactions
    f_txInfos,      \* the txInfo held by each timer of lines 450-483
    f_copies,       \* per prepared transaction: none / timer / inflight /
                    \* accepted / rejected (the ledger's answer)
    f_submissionResults,  \* this.submissionResults
    f_outcome,      \* what executeFlood reports at line 492-496
    \* ---- fee quotes (updateFeeStats of Sweeper and of Loop)
    q_variant,      \* which updateFeeStats ran last: none / p99 / p80
    q_p,            \* the percentile it read
    q_bid,          \* the currentFee it set
    \* ---- predicate evaluation (extractMinTime, findUnlockTimeInPredicate)
    p_evaluator,    \* which evaluator ran last: none / extractMinTime /
                    \* findUnlockTimeInPredicate
    p_pred,         \* the claimant predicate it was given
    p_unlock,       \* what it returned; 0 stands for null (and for 0)
    p_timeLocked,   \* whether the balance is taken up as time-locked
    p_tx,           \* what buildAndSign returned for it, NoTx if it did not run
    \* ---- start() and block monitoring of PiNetworkPrecisionClaimBot
    k_phase,        \* "unbuilt" until the constructor has run
    k_starts,       \* calls of start() so far
    k_unlockTimestamp,      \* this.unlockTimestamp; 0 stands for undefined
    k_lastFetched,  \* unlock instant in the payload fetched last, 0 if none
    k_blockMonitoringActive,    \* this.blockMonitoringActive
    k_blockMonitorInterval,     \* this.blockMonitorInterval is set
    k_latestLedgerNum,      \* this.latestLedgerNum, counted from the first
    k_lastLedgerCloseTime,  \* this.lastLedgerCloseTime, from the first
    k_blockTimes,   \* this.blockTimes
    k_avgBlockTimeMs,       \* this.avgBlockTimeMs, as the fraction sum / n
    k_expectedNextBlockTime,    \* expectedNextBlockTime of the latest
                    \* checkUnlockTimeProximity, as a fraction; n = 0 when
                    \* that call did not compute it
    k_prepareTimers,    \* timers of start() line 630 armed and not yet run
    k_floodTimers,  \* timers of checkUnlockTimeProximity armed, not yet run
    k_stopped,      \* stop() was called and start() has not been since
    k_unlockPassed, \* Date.now() >= this.unlockTimestamp; FALSE while no
                    \* unlockTimestamp is set
    k_lastResponse, \* what the interval callback that ran last made of its
                    \* response: "new" ledger, "old" one, "none" before the first
    \* ---- when the automatic triggers of PiNetworkPrecisionClaimBot invoke
    \* ---- executeFlood (times in ms)
    t_unlock,       \* this.unlockTimestamp
    t_now,          \* Date.now() as read by the caller
    t_close,        \* this.lastLedgerCloseTime
    t_avg,          \* this.avgBlockTimeMs, as the fraction sum / n
    t_trigger,      \* who invokes executeFlood: none / start / pastUnlock / timer
    t_floodAt       \* the instant of that invocation, 0 without one

varsSweeper == <<e_pc, e_now, e_currentFee, e_quote, e_balances, e_idx, e_wakeAt,
                 e_attempt, e_tx, e_subs>>

varsLoop == <<l_pc, l_currentFee, l_count, l_idx, l_attempt, l_subs,
              l_timers, l_inflight>>

varsMonitor == <<h_phase, h_currentFee, h_cacheLoaded, h_unlockBlock,
                 h_lastLedger, h_blockFeed, h_monitor, h_prepareTimer,
                 h_status, h_calls, h_rounds, h_lastFee, h_lastBuild>>

\* the state of the flood itself
varsFloodRun == <<f_isRunning, f_phase, f_transactions, f_txInfos, f_copies,
                  f_submissionResults, f_outcome>>

varsFlood == <<f_baseFee, varsFloodRun>>

varsQuote == <<q_variant, q_p, q_bid>>

varsPredicate == <<p_evaluator, p_pred, p_unlock, p_timeLocked, p_tx>>

\* what stopBlockMonitoring writes
varsMonitoring == <<k_blockMonitoringActive, k_blockMonitorInterval>>

varsBlocksRest == <<k_phase, k_starts, k_unlockTimestamp, k_lastFetched,
                    k_latestLedgerNum, k_lastLedgerCloseTime, k_blockTimes,
                    k_avgBlockTimeMs, k_expectedNextBlockTime,
                    k_prepareTimers, k_floodTimers, k_stopped, k_unlockPassed,
                    k_lastResponse>>

varsBlocks == <<varsMonitoring, varsBlocksRest>>

varsTiming == <<t_unlock, t_now, t_close, t_avg, t_trigger, t_floodAt>>

vars == <<varsSweeper, varsLoop, varsMonitor, varsFlood, varsQuote,
          varsPredicate, varsBlocks, varsTiming>>

notSweeper == <<varsLoop, varsMonitor, varsFlood, varsQuote, varsPredicate,
                varsBlocks, varsTiming>>
notLoop == <<varsSweeper, varsMonitor, varsFlood, varsQuote, varsPredicate,
             varsBlocks, varsTiming>>
notMonitor == <<varsSweeper, varsLoop, varsFlood, varsQuote, varsPredicate,
                varsBlocks, varsTiming>>
notFlood == <<varsSweeper, varsLoop, varsMonitor, varsQuote, varsPredicate,
              varsBlocks, varsTiming>>
notQuote == <<varsSweeper, varsLoop, varsMonitor, varsFlood, varsPredicate,
              varsBlocks, varsTiming>>
notPredicate == <<varsSweeper, varsLoop, varsMonitor, varsFlood, varsQuote,
                  varsBlocks, varsTiming>>
\* the handlers of start() and of block monitoring call into the flood
notBlocks == <<varsSweeper, varsLoop, varsMonitor, varsQuote, varsPredicate,
              varsTiming>>
notTiming == <<varsSweeper, varsLoop, varsMonitor, varsFlood, varsQuote,
               varsPredicate, varsBlocks>>

(***************************************************************************)
(* Bounds of the model.                                                    *)
(***************************************************************************)
MaxNow == 12          \* the clock stops advancing here
MaxBalances == 2      \* longest list a poll returns
FeeSaturation == 2000000000   \* fees at or above this are not told apart
MaxFloodPending == 4  \* flood copies outstanding at once
MaxCalls == 2         \* invocations of prepareAndSubmitTransaction at once
MaxLedger == 2        \* block notifications delivered
TxCount == 3          \* txCount: transactions prepared for one flood
QuoteSteps == 44      \* percentile inputs tried: grid points 0..QuoteSteps
MaxPredTime == 2      \* time bounds of predicates: epochs 1..MaxPredTime
MaxBlocks == 11       \* new ledgers the block monitor observes
MaxSlowBlocks == 1    \* of which this many close late
MaxStarts == 2        \* calls of start()
MaxFloodTimers == 1   \* flood timers of checkUnlockTimeProximity pending
MaxWatched == 1       \* highest ledger in the responses to the block monitor

(***************************************************************************)
(* Helpers.                                                                *)
(***************************************************************************)
Max(a, b) == IF a >= b THEN a ELSE b
Min(a, b) == IF a <= b THEN a ELSE b
MinOf(S) == CHOOSE x \in S : \A y \in S : x <= y
HasField(r, f) == f \in DOMAIN r

\* Outcomes of server.submitTransaction: success, a retryable rejection (fee
\* too low, timeout, stale sequence), or a terminal one (balance already
\* claimed by another party, malformed payload).
Outcomes == {"ok", "retryable", "terminal"}
NoTx == [built |-> FALSE]

(***************************************************************************)
(* Sweeper: configuration (part_000 lines 60-73).                          *)
(***************************************************************************)
Sweeper_baseFee == 100000
Sweeper_maxFee == 500000
Sweeper_feePriorityMultiplier == 10
Sweeper_maxSubmissionAttempts == 3
Sweeper_timeboundGrace == 60
Sweeper_earlySubmitOffset == 1
Sweeper_errorSleep == 5

\* Node's setTimeout keeps the delay in a signed 32-bit number of
\* milliseconds: a delay above 2^31 - 1 ms (2147483.647 s) is replaced by
\* 1 ms.  In whole seconds: above 2147483 s the timer fires at once.
TimerMaxSec == 2147483
setTimeoutSec(delay) == IF delay > TimerMaxSec THEN 0 ELSE delay

TargetKey == "target"
OtherKey == "other"

\* An unlock instant the clock of the model reaches.
NearUnlock == MaxNow - 1

\* An unlock instant so far ahead that the wait exceeds the timer range.
FarUnlock == TimerMaxSec + MaxNow + 8

\* Claimable balances a poll may return.  A predicate is the JSON object of
\* the ledger: a record holding only the fields that are present.
SweeperBalances ==
    { [id |-> "near", amount |-> 5,
       claimants |-> << [destination |-> OtherKey,
                         predicate |-> [unconditional |-> TRUE]],
                        [destination |-> TargetKey,
                         predicate |-> [not |-> [abs_before_epoch |-> NearUnlock]]] >>],
      [id |-> "far", amount |-> 9,
       claimants |-> << [destination |-> TargetKey,
                         predicate |-> [abs_after |-> FarUnlock]] >>],
      [id |-> "open", amount |-> 3,
       claimants |-> << [destination |-> TargetKey,
                         predicate |-> [unconditional |-> TRUE]] >>] }

SweeperPolls ==
    UNION { [1..n -> SweeperBalances] : n \in 0..MaxBalances }

\* fee_charged.p99 values the ledger may report.
P99Values == {0, 100, 30000}

\* balance.claimants.find(c => c.destination === this.targetKP.publicKey())
findClaimant(claimants) ==
    LET hits == {i \in 1..Len(claimants) : claimants[i].destination = TargetKey}
    IN  IF hits = {} THEN [destination |-> "undefined"]
        ELSE claimants[MinOf(hits)]

\* a variant that takes a balance without a time bound as claimable at once
extractMinTime_untimedNow(balance) ==
    LET claimant == findClaimant(balance.claimants)
    IN  IF HasField(claimant, "predicate")
        THEN LET p == claimant.predicate
             IN  IF HasField(p, "abs_after") THEN p.abs_after
                 ELSE IF HasField(p, "not") /\ HasField(p.not, "abs_before_epoch")
                      THEN p.not.abs_before_epoch
                      ELSE 1
        ELSE 1

extractMinTime(balance) ==
    LET claimant == findClaimant(balance.claimants)
    IN  IF HasField(claimant, "predicate")
        THEN LET p == claimant.predicate
             IN  IF HasField(p, "abs_after") THEN p.abs_after
                 ELSE IF HasField(p, "not") /\ HasField(p.not, "abs_before_epoch")
                      THEN p.not.abs_before_epoch
                      ELSE 0
        ELSE 0

\* updateFeeStats (p99 variant): fee = p99 * multiplier; currentFee = fee * 7
updateFeeStats_p99(p99) == (p99 * Sweeper_feePriorityMultiplier) * 7

\* start(): wait = Math.max(submitTime - now, 0)
Sweeper_wait(unlockTime, now) ==
    Max((unlockTime - Sweeper_earlySubmitOffset) - now, 0)

\* a variant whose window opens earlySubmitOffset after the unlock instant
buildAndSign_lateWindow(balance, now, fee) ==
    [built |-> TRUE,
     id |-> balance.id,
     fee |-> fee,
     ops |-> <<"claimClaimableBalance", "payment">>,
     minTime |-> extractMinTime(balance) + Sweeper_earlySubmitOffset,
     maxTime |-> extractMinTime(balance) + Sweeper_timeboundGrace,
     unlockTime |-> extractMinTime(balance),
     builtAt |-> now]

\* a variant that adds the payment before the claim
buildAndSign_paymentFirst(balance, now, fee) ==
    [built |-> TRUE,
     id |-> balance.id,
     fee |-> fee,
     ops |-> <<"payment", "claimClaimableBalance">>,
     minTime |-> extractMinTime(balance),
     maxTime |-> extractMinTime(balance) + Sweeper_timeboundGrace,
     unlockTime |-> extractMinTime(balance),
     builtAt |-> now]

\* buildAndSign: the transaction built for `balance` at instant `now`
buildAndSign(balance, now, fee) ==
    [built |-> TRUE,
     id |-> balance.id,
     fee |-> fee,
     ops |-> <<"claimClaimableBalance", "payment">>,
     minTime |-> extractMinTime(balance),
     maxTime |-> extractMinTime(balance) + Sweeper_timeboundGrace,
     unlockTime |-> extractMinTime(balance),
     builtAt |-> now]

\* submitWithRetries: the fee of the next fee-bump envelope
\* (a JavaScript number does not overflow here; the model saturates)
Sweeper_bumpFee(fee) ==
    IF fee > FeeSaturation \div Sweeper_feePriorityMultiplier
    THEN FeeSaturation
    ELSE fee * Sweeper_feePriorityMultiplier

(***************************************************************************)
(* Loop: configuration (part_000 lines 281-291).                           *)
(***************************************************************************)
Loop_baseFee == 100000
Loop_maxFee == 1000000
Loop_feePriorityMultiplier == 2
Loop_maxSubmissionAttempts == 5
Loop_floodCount == 3
FeeGranularity == 100

\* Math.ceil(x / 100) * 100
ceil100(x) == ((x + FeeGranularity - 1) \div FeeGranularity) * FeeGranularity

\* fee_charged.p80 values the ledger may report.
P80Values == {0, 49999, 50001, 120000, 499990, 700000}

\* updateFeeStats (p80 variant), lines 403-409
updateFeeStats_p80(p80) ==
    LET fee == Max(p80 * Loop_feePriorityMultiplier, Loop_baseFee)
    IN  Min(ceil100(fee), Loop_maxFee)

\* start(), lines 389-392: the bump after a failed attempt
Loop_bumpFee(fee) ==
    Min(ceil100(fee * Loop_feePriorityMultiplier), Loop_maxFee)

(***************************************************************************)
(* Monitor: configuration (part_000 lines 431-463).                        *)
(***************************************************************************)
Monitor_baseFee == 100000
Monitor_maxFee == 1000000
Monitor_maxSubmissionAttempts == 3

\* Outcomes of client.feeStats() inside refreshAccountData, and of the two
\* loadAccount calls before it.
MonitorRefreshResults ==
    { [kind |-> "acctFail"], [kind |-> "statsFail"] }
    \cup { [kind |-> "ok", p80 |-> p, min |-> 100] : p \in {0, 66667, 400000} }

\* updateNetworkFees, lines 761-783, on available statistics.
\* feePriorityMultiplier is 1.5: the quantities are kept doubled until the
\* final Math.ceil(targetFee / 100) * 100.
updateNetworkFees(p80, min) ==
    LET t1 == Max(3 * p80, 2 * Monitor_baseFee)
        t2 == Min(t1, 2 * Monitor_maxFee)
        t3 == Max(t2, 2 * min)
    IN  ((t3 + 2 * FeeGranularity - 1) \div (2 * FeeGranularity)) * FeeGranularity

\* a variant that falls back to the floor when the refresh fails
refreshAccountData_floor(fee, result) ==
    IF result.kind = "ok" THEN updateNetworkFees(result.p80, result.min)
    ELSE Monitor_baseFee

\* the fee left by refreshAccountData (lines 727-752): a failed loadAccount
\* or feeStats is caught and leaves networkStats.currentFee as it was
refreshAccountData_fee(fee, result) ==
    IF result.kind = "ok" THEN updateNetworkFees(result.p80, result.min)
    ELSE fee

\* the account cache after refreshAccountData
refreshAccountData_cache(cache, result) ==
    IF result.kind = "acctFail" THEN cache ELSE TRUE

\* lines 1189-1192: Math.min(Math.round(currentFee * 1.5), maxFee)
Monitor_bumpFee(fee) == Min((3 * fee + 1) \div 2, Monitor_maxFee)

SweeperInit ==
    /\ e_pc = "fee"
    /\ e_now = 0
    /\ e_currentFee = 0
    /\ e_quote = 0
    /\ e_balances = <<>>
    /\ e_idx = 0
    /\ e_wakeAt = 0
    /\ e_attempt = 0
    /\ e_tx = NoTx
    /\ e_subs = <<>>

\* the Loop bot as constructed (part_000 lines 294-304)
LoopInit ==
    /\ l_pc = "fee"
    /\ l_currentFee = Loop_baseFee
    /\ l_count = 0
    /\ l_idx = 0
    /\ l_attempt = 0
    /\ l_subs = <<>>
    /\ l_timers = 0
    /\ l_inflight = 0

\* the Monitor bot as constructed (part_000 lines 466-522)
NoCall == [pc |-> "free", prepareOnly |-> FALSE]
NoBuild == [built |-> FALSE]
MonitorInit ==
    /\ h_phase = "new"
    /\ h_currentFee = Monitor_baseFee * 3
    /\ h_cacheLoaded = FALSE
    /\ h_unlockBlock = 0
    /\ h_lastLedger = 0
    /\ h_blockFeed = FALSE
    /\ h_monitor = "none"
    /\ h_prepareTimer = "none"
    /\ h_status = [preparing |-> FALSE, submitted |-> FALSE,
                   confirmed |-> FALSE, attempts |-> 0]
    /\ h_calls = [c \in 1..MaxCalls |-> NoCall]
    /\ h_rounds = 0
    /\ h_lastFee = 0
    /\ h_lastBuild = NoBuild

\* constructor defaults of PiNetworkPrecisionClaimBot, lines 28-30
Flood_baseFee == 100000
Flood_feeIncrement == 20000
Flood_txSpacingMs == 15

\* the Flood bot as constructed (pi-js-bot.js lines 17-76)
FloodInit ==
    /\ f_baseFee = [text |-> FALSE, value |-> Flood_baseFee]
    /\ f_isRunning = FALSE
    /\ f_phase = "idle"
    /\ f_transactions = <<>>
    /\ f_txInfos = <<>>
    /\ f_copies = [i \in 1..TxCount |-> "none"]
    /\ f_submissionResults = <<>>
    /\ f_outcome = "none"

QuoteInit ==
    /\ q_variant = "none"
    /\ q_p = 0
    /\ q_bid = 0

\* PiNetworkPrecisionClaimBot: history length (line 183), first estimate
\* (line 66), lead of prepareTransactions (line 229)
Blocks_historySize == 10
Blocks_initialAvg == 5000
Blocks_prepareLead == 30000

\* expectedNextBlockTime was not computed
NoEstimate == [sum |-> 0, n |-> 0]

\* the fields of pi-js-bot.js lines 53 and 62-67 before the constructor ran
BlocksInit ==
    /\ k_phase = "unbuilt"
    /\ k_starts = 0
    /\ k_unlockTimestamp = 0
    /\ k_lastFetched = 0
    /\ k_blockMonitoringActive = FALSE
    /\ k_blockMonitorInterval = FALSE
    /\ k_latestLedgerNum = 0
    /\ k_lastLedgerCloseTime = 0
    /\ k_blockTimes = <<>>
    /\ k_avgBlockTimeMs = [sum |-> Blocks_initialAvg, n |-> 1]
    /\ k_expectedNextBlockTime = NoEstimate
    /\ k_prepareTimers = 0
    /\ k_floodTimers = 0
    /\ k_stopped = FALSE
    /\ k_unlockPassed = FALSE
    /\ k_lastResponse = "none"

PredicateInit ==
    /\ p_evaluator = "none"
    /\ p_pred = [unconditional |-> TRUE]
    /\ p_unlock = 0
    /\ p_timeLocked = FALSE
    /\ p_tx = NoTx

\* no trigger has been evaluated
TimingInit ==
    /\ t_unlock = 0
    /\ t_now = 0
    /\ t_close = 0
    /\ t_avg = [sum |-> Blocks_initialAvg, n |-> 1]
    /\ t_trigger = "none"
    /\ t_floodAt = 0

\* every bot as constructed
Init ==
    /\ SweeperInit
    /\ LoopInit
    /\ MonitorInit
    /\ FloodInit
    /\ QuoteInit
    /\ PredicateInit
    /\ BlocksInit
    /\ TimingInit

\* a variant in which a caught error ends start()
Sweeper_caught_exits ==
    /\ e_pc' = "exited"
    /\ UNCHANGED e_wakeAt

\* catch (e) at the loop boundary: log, sleep 5 s, next iteration of while
Sweeper_caught ==
    /\ e_pc' = "sleep"
    /\ e_wakeAt' = e_now + setTimeoutSec(Sweeper_errorSleep)

\* await this.updateFeeStats()
E_updateFeeStats ==
    /\ e_pc = "fee"
    /\ \/ \E p99 \in P99Values :
            /\ e_currentFee' = updateFeeStats_p99(p99)
            /\ e_quote' = updateFeeStats_p99(p99)
            /\ e_pc' = "poll"
            /\ UNCHANGED e_wakeAt
       \/ Sweeper_caught /\ UNCHANGED <<e_currentFee, e_quote>>
    /\ UNCHANGED <<e_now, e_balances, e_idx, e_attempt, e_tx, e_subs>>
    /\ UNCHANGED notSweeper

\* a variant that polls again at once after an empty poll
E_getAllBalances_noBackoff ==
    /\ e_pc = "poll"
    /\ \/ \E recs \in SweeperPolls :
            /\ e_balances' = recs
            /\ IF Len(recs) = 0
               THEN /\ e_pc' = "fee"
                    /\ e_idx' = 0
               ELSE /\ e_pc' = "iter"
                    /\ e_idx' = 1
            /\ UNCHANGED e_wakeAt
       \/ Sweeper_caught /\ UNCHANGED <<e_balances, e_idx>>
    /\ UNCHANGED <<e_now, e_currentFee, e_attempt, e_tx, e_subs>>
    /\ UNCHANGED <<e_quote, notSweeper>>

\* const balances = await this.getAllBalances(); empty: sleep 5 s
E_getAllBalances ==
    /\ e_pc = "poll"
    /\ \/ \E recs \in SweeperPolls :
            /\ e_balances' = recs
            /\ IF Len(recs) = 0
               THEN /\ e_pc' = "sleep"
                    /\ e_wakeAt' = e_now + setTimeoutSec(Sweeper_errorSleep)
                    /\ e_idx' = 0
               ELSE /\ e_pc' = "iter"
                    /\ e_idx' = 1
                    /\ UNCHANGED e_wakeAt
       \/ Sweeper_caught /\ UNCHANGED <<e_balances, e_idx>>
    /\ UNCHANGED <<e_now, e_currentFee, e_attempt, e_tx, e_subs>>
    /\ UNCHANGED <<e_quote, notSweeper>>

\* head of `for (const bal of balances)`: skip an untimed balance, or arm
\* the early-submit timer
E_nextBalance ==
    /\ e_pc = "iter"
    /\ IF e_idx > Len(e_balances)
       THEN /\ e_pc' = "fee"
            /\ UNCHANGED <<e_idx, e_wakeAt>>
       ELSE LET unlockTime == extractMinTime(e_balances[e_idx])
            IN  IF unlockTime = 0
                THEN /\ e_idx' = e_idx + 1
                     /\ UNCHANGED <<e_pc, e_wakeAt>>
                ELSE /\ e_wakeAt' = e_now + setTimeoutSec(Sweeper_wait(unlockTime, e_now))
                     /\ e_pc' = "wait"
                     /\ UNCHANGED e_idx
    /\ e_tx' = NoTx
    /\ e_subs' = <<>>
    /\ e_attempt' = 0
    /\ UNCHANGED <<e_now, e_currentFee, e_balances>>
    /\ UNCHANGED <<e_quote, notSweeper>>

\* the timer of line 242 resolves
E_wake ==
    /\ e_pc = "wait"
    /\ e_now >= e_wakeAt
    /\ e_pc' = "load"
    /\ e_wakeAt' = 0
    /\ UNCHANGED <<e_now, e_currentFee, e_balances, e_idx,
                   e_attempt, e_tx, e_subs>>
    /\ UNCHANGED <<e_quote, notSweeper>>

\* await this.server.loadAccount(sponsor)
E_loadAccount ==
    /\ e_pc = "load"
    /\ \/ e_pc' = "build" /\ UNCHANGED e_wakeAt
       \/ Sweeper_caught
    /\ UNCHANGED <<e_now, e_currentFee, e_balances, e_idx, e_attempt, e_tx, e_subs>>
    /\ UNCHANGED <<e_quote, notSweeper>>

\* const tx = await this.buildAndSign(bal, sponsorAccount); the SDK throws
\* on an amount or a destination it rejects
E_buildAndSign ==
    /\ e_pc = "build"
    /\ \/ /\ e_tx' = buildAndSign(e_balances[e_idx], e_now, e_currentFee)
          /\ e_pc' = "ledger"
          /\ UNCHANGED e_wakeAt
       \/ Sweeper_caught /\ UNCHANGED e_tx
    /\ UNCHANGED <<e_now, e_currentFee, e_balances, e_idx, e_attempt, e_subs>>
    /\ UNCHANGED <<e_quote, notSweeper>>

\* let ledge = await this.getLatestLedger()
E_getLatestLedger ==
    /\ e_pc = "ledger"
    /\ \/ e_pc' = "submit" /\ UNCHANGED e_wakeAt
       \/ Sweeper_caught
    /\ UNCHANGED <<e_now, e_currentFee, e_balances, e_idx, e_attempt, e_tx, e_subs>>
    /\ UNCHANGED <<e_quote, notSweeper>>

\* submitWithRetries, lines 172-178: the pre-signed transaction
E_submitInitial ==
    /\ e_pc = "submit"
    /\ \E out \in Outcomes :
        /\ e_subs' = Append(e_subs, [fee |-> e_tx.fee, out |-> out,
                                   ops |-> e_tx.ops])
        /\ IF out = "ok"
           THEN e_pc' = "pause" /\ UNCHANGED e_attempt
           ELSE e_pc' = "bump" /\ e_attempt' = 1
    /\ UNCHANGED <<e_now, e_currentFee, e_balances, e_idx, e_wakeAt, e_tx>>
    /\ UNCHANGED <<e_quote, notSweeper>>

\* submitWithRetries, lines 180-198: one pass of the fee-bump loop
E_feeBump ==
    /\ e_pc = "bump"
    /\ IF e_attempt <= Sweeper_maxSubmissionAttempts
       THEN /\ e_currentFee' = Sweeper_bumpFee(e_currentFee)
            /\ \E out \in Outcomes :
                /\ e_subs' = Append(e_subs, [fee |-> e_currentFee', out |-> out,
                                           ops |-> e_tx.ops])
                /\ IF out = "ok"
                   THEN e_pc' = "pause" /\ UNCHANGED e_attempt
                   ELSE e_attempt' = e_attempt + 1 /\ UNCHANGED e_pc
       ELSE /\ e_pc' = "pause"
            /\ UNCHANGED <<e_currentFee, e_attempt, e_subs>>
    /\ UNCHANGED <<e_now, e_balances, e_idx, e_wakeAt, e_tx>>
    /\ UNCHANGED <<e_quote, notSweeper>>

\* await setTimeout(config.pollIntervalMs): 10 ms, then the next balance
E_pause ==
    /\ e_pc = "pause"
    /\ e_pc' = "iter"
    /\ e_idx' = e_idx + 1
    /\ UNCHANGED <<e_now, e_currentFee, e_balances, e_wakeAt, e_attempt,
                   e_tx, e_subs>>
    /\ UNCHANGED <<e_quote, notSweeper>>

\* the 5 s sleep after an empty poll or a caught error resolves
E_sleepDone ==
    /\ e_pc = "sleep"
    /\ e_now >= e_wakeAt
    /\ e_pc' = "fee"
    /\ e_wakeAt' = 0
    /\ UNCHANGED <<e_now, e_currentFee, e_balances, e_idx,
                   e_attempt, e_tx, e_subs>>
    /\ UNCHANGED <<e_quote, notSweeper>>

\* time passes
E_tick ==
    /\ e_now < MaxNow
    /\ e_now' = e_now + 1
    /\ UNCHANGED <<e_pc, e_currentFee, e_balances, e_idx, e_wakeAt,
                   e_attempt, e_tx, e_subs>>
    /\ UNCHANGED <<e_quote, notSweeper>>

\* a step of start() itself, the clock apart
Sweeper_step ==
    \/ E_updateFeeStats
    \/ E_getAllBalances
    \/ E_nextBalance
    \/ E_wake
    \/ E_loadAccount
    \/ E_buildAndSign
    \/ E_getLatestLedger
    \/ E_submitInitial
    \/ E_feeBump
    \/ E_pause
    \/ E_sleepDone

NextSweeper ==
    \/ E_updateFeeStats
    \/ E_getAllBalances
    \/ E_nextBalance
    \/ E_wake
    \/ E_loadAccount
    \/ E_buildAndSign
    \/ E_getLatestLedger
    \/ E_submitInitial
    \/ E_feeBump
    \/ E_pause
    \/ E_sleepDone
    \/ E_tick

SpecSweeper == Init /\ [][NextSweeper]_vars

(***************************************************************************)
(* Loop: start() with the per-balance retry loop.                          *)
(***************************************************************************)
\* leave the per-balance while loop: next balance, or next cycle
Loop_nextBalance ==
    /\ l_attempt' = 0
    /\ IF l_idx < l_count
       THEN l_idx' = l_idx + 1 /\ UNCHANGED l_pc
       ELSE l_idx' = 0 /\ l_pc' = "fee"

\* await this.updateFeeStats(); a throw is caught at line 397 and the
\* while loop starts over at once
L_updateFeeStats ==
    /\ l_pc = "fee"
    /\ \/ \E p80 \in P80Values :
            /\ l_currentFee' = updateFeeStats_p80(p80)
            /\ l_pc' = "poll"
       \/ UNCHANGED <<l_currentFee, l_pc>>
    /\ UNCHANGED <<l_count, l_idx, l_attempt, l_subs, l_timers, l_inflight>>
    /\ UNCHANGED notLoop

\* const balances = await this.getAllBalances()
L_getAllBalances ==
    /\ l_pc = "poll"
    /\ \/ \E n \in 0..MaxBalances :
            /\ l_count' = n
            /\ IF n = 0
               THEN l_pc' = "sleep" /\ l_idx' = 0
               ELSE l_pc' = "attempt" /\ l_idx' = 1
       \/ l_pc' = "fee" /\ UNCHANGED <<l_count, l_idx>>
    /\ l_attempt' = 0
    /\ l_subs' = <<>>
    /\ UNCHANGED <<l_currentFee, l_timers, l_inflight>>
    /\ UNCHANGED notLoop

\* the 5 s sleep after an empty poll resolves
L_sleepDone ==
    /\ l_pc = "sleep"
    /\ l_pc' = "fee"
    /\ UNCHANGED <<l_currentFee, l_count, l_idx, l_attempt, l_subs,
                   l_timers, l_inflight>>
    /\ UNCHANGED notLoop

\* one pass of `while (attempt < config.maxSubmissionAttempts)`, lines
\* 368-395: build, sign, submit; on success arm the flood timers and break;
\* on any error count the attempt and bump the fee
L_attempt ==
    /\ l_pc = "attempt"
    /\ l_attempt < Loop_maxSubmissionAttempts
    /\ \/ \* buildTxForBalance throws (loadAccount failed): nothing submitted
          /\ l_attempt' = l_attempt + 1
          /\ l_currentFee' = Loop_bumpFee(l_currentFee)
          /\ UNCHANGED <<l_subs, l_pc, l_idx, l_timers>>
       \/ \* submitted, and rejected
          /\ \E out \in Outcomes \ {"ok"} :
                l_subs' = Append(l_subs, [fee |-> l_currentFee, out |-> out,
                                          build |-> l_attempt + 1])
          /\ l_attempt' = l_attempt + 1
          /\ l_currentFee' = Loop_bumpFee(l_currentFee)
          /\ UNCHANGED <<l_pc, l_idx, l_timers>>
       \/ \* submitted, and accepted: flood duplicates, then break
          /\ l_timers + l_inflight + Loop_floodCount <= MaxFloodPending
          /\ l_timers' = l_timers + Loop_floodCount
          /\ Loop_nextBalance
          /\ l_subs' = <<>>
          /\ UNCHANGED l_currentFee
    /\ UNCHANGED <<l_count, l_inflight>>
    /\ UNCHANGED notLoop

\* the while loop ends with attempt = maxSubmissionAttempts
L_exhausted ==
    /\ l_pc = "attempt"
    /\ l_attempt >= Loop_maxSubmissionAttempts
    /\ Loop_nextBalance
    /\ l_subs' = <<>>
    /\ UNCHANGED <<l_currentFee, l_count, l_timers, l_inflight>>
    /\ UNCHANGED notLoop

\* a flood timer of line 378 runs: submitTransaction(tx) is issued
L_floodFire ==
    /\ l_timers > 0
    /\ l_timers' = l_timers - 1
    /\ l_inflight' = l_inflight + 1
    /\ UNCHANGED <<l_pc, l_currentFee, l_count, l_idx, l_attempt, l_subs>>
    /\ UNCHANGED notLoop

\* a flood submission settles; a rejection is caught and logged (line 379)
L_floodSettle ==
    /\ l_inflight > 0
    /\ l_inflight' = l_inflight - 1
    /\ UNCHANGED <<l_pc, l_currentFee, l_count, l_idx, l_attempt, l_subs,
                   l_timers>>
    /\ UNCHANGED notLoop

NextLoop ==
    \/ L_updateFeeStats
    \/ L_getAllBalances
    \/ L_sleepDone
    \/ L_attempt
    \/ L_exhausted
    \/ L_floodFire
    \/ L_floodSettle

SpecLoop == Init /\ [][NextLoop]_vars

(***************************************************************************)
(* Monitor: unlock monitoring and prepareAndSubmitTransaction.             *)
(***************************************************************************)
FreeSlots == {c \in 1..MaxCalls : h_calls[c].pc = "free"}

\* the synchronous head of prepareAndSubmitTransaction (lines 986-997) run
\* in slot c: the two guards, then preparing = true and the await of
\* refreshAccountData
enterCall(c, prepareOnly) ==
    IF h_status.submitted \/ (prepareOnly /\ h_status.preparing)
    THEN /\ h_calls' = [h_calls EXCEPT ![c] = NoCall]
         /\ UNCHANGED h_status
    ELSE /\ h_calls' = [h_calls EXCEPT ![c] = [pc |-> "refresh",
                                               prepareOnly |-> prepareOnly]]
         /\ h_status' = [h_status EXCEPT !.preparing = TRUE]

\* initialize(), lines 545-571: first refreshAccountData, then
\* detectClaimableBalances estimates the unlock block, then startMonitoring
\* arms the unlock trigger and, more than prepareBuffer ahead, the
\* prepare-only timer
M_initialize ==
    /\ h_phase = "new"
    /\ h_phase' = "monitoring"
    /\ \E result \in MonitorRefreshResults :
        /\ h_currentFee' = refreshAccountData_fee(h_currentFee, result)
        /\ h_cacheLoaded' = refreshAccountData_cache(h_cacheLoaded, result)
    /\ h_blockFeed' \in BOOLEAN
    /\ h_unlockBlock' \in 1..MaxLedger
    /\ h_monitor' = "armed"
    /\ h_prepareTimer' \in {"armed", "none"}
    /\ UNCHANGED <<h_lastLedger, h_status, h_calls, h_rounds, h_lastFee,
                   h_lastBuild>>
    /\ UNCHANGED notMonitor

\* the unlock trigger: the immediate call of line 941, or the interval
\* callback of lines 975-979 (clearInterval, then the call)
M_unlockReached ==
    /\ h_phase = "monitoring"
    /\ h_monitor = "armed"
    /\ ~h_status.submitted
    /\ FreeSlots # {}
    /\ h_monitor' = "cleared"
    /\ enterCall(MinOf(FreeSlots), FALSE)
    /\ UNCHANGED <<h_phase, h_currentFee, h_cacheLoaded, h_unlockBlock,
                   h_lastLedger, h_blockFeed, h_prepareTimer, h_rounds,
                   h_lastFee, h_lastBuild>>
    /\ UNCHANGED notMonitor

\* the timer of lines 952-955: prepareAndSubmitTransaction(true)
M_prepareTimer ==
    /\ h_phase = "monitoring"
    /\ h_prepareTimer = "armed"
    /\ FreeSlots # {}
    /\ h_prepareTimer' = "fired"
    /\ enterCall(MinOf(FreeSlots), TRUE)
    /\ UNCHANGED <<h_phase, h_currentFee, h_cacheLoaded, h_unlockBlock,
                   h_lastLedger, h_blockFeed, h_monitor, h_rounds,
                   h_lastFee, h_lastBuild>>
    /\ UNCHANGED notMonitor

\* handleNewBlock, lines 700-724, for the next ledger
M_handleNewBlock ==
    /\ h_phase = "monitoring"
    /\ h_blockFeed
    /\ h_lastLedger < MaxLedger
    /\ LET sequence == h_lastLedger + 1
           near == h_unlockBlock # 0 /\ sequence >= h_unlockBlock - 1
           prepare == near /\ sequence = h_unlockBlock - 1 /\ ~h_status.preparing
           submit == near /\ sequence >= h_unlockBlock /\ ~h_status.submitted
       IN  /\ h_lastLedger' = sequence
           /\ IF prepare \/ submit
              THEN /\ FreeSlots # {}
                   /\ enterCall(MinOf(FreeSlots), prepare)
              ELSE UNCHANGED <<h_calls, h_status>>
    /\ UNCHANGED <<h_phase, h_currentFee, h_cacheLoaded, h_unlockBlock,
                   h_blockFeed, h_monitor, h_prepareTimer, h_rounds,
                   h_lastFee, h_lastBuild>>
    /\ UNCHANGED notMonitor

\* a variant that goes on to submit whatever prepareOnly says
submitsAfterBuild_always(prepareOnly) == TRUE

\* lines 1119-1123: a prepare-only call returns once the transaction is
\* built and signed
submitsAfterBuild(prepareOnly) == ~prepareOnly

\* refreshAccountData resolves in call c and the call runs on without
\* suspending (lines 1002-1127): build with the current fee; a prepare-only
\* call returns; otherwise submitted = true, attempts += 1 and the round of
\* submissions is issued.  Without a cached sponsor account the build
\* throws and the catch of line 1205 clears `preparing`.
M_refreshed(c) ==
    /\ h_calls[c].pc = "refresh"
    /\ \E result \in MonitorRefreshResults :
        /\ h_currentFee' = refreshAccountData_fee(h_currentFee, result)
        /\ h_cacheLoaded' = refreshAccountData_cache(h_cacheLoaded, result)
        /\ IF ~h_cacheLoaded'
           THEN /\ h_status' = [h_status EXCEPT !.preparing = FALSE]
                /\ h_calls' = [h_calls EXCEPT ![c] = NoCall]
                /\ UNCHANGED <<h_rounds, h_lastFee, h_lastBuild>>
           ELSE /\ h_lastBuild' = [built |-> TRUE,
                                   fee |-> h_currentFee',
                                   feeBefore |-> h_currentFee,
                                   stats |-> IF result.kind = "ok"
                                             THEN "available"
                                             ELSE "unavailable",
                                   account |-> IF result.kind = "acctFail"
                                               THEN "cached"
                                               ELSE "loaded",
                                   submitted |-> ~h_calls[c].prepareOnly]
                /\ IF ~submitsAfterBuild(h_calls[c].prepareOnly)
                   THEN /\ h_calls' = [h_calls EXCEPT ![c] = NoCall]
                        /\ UNCHANGED <<h_status, h_rounds, h_lastFee>>
                   ELSE /\ h_status' = [h_status EXCEPT
                                           !.submitted = TRUE,
                                           !.attempts = @ + 1]
                        /\ h_calls' = [h_calls EXCEPT ![c].pc = "inflight"]
                        /\ h_rounds' = h_rounds + 1
                        /\ h_lastFee' = h_currentFee'
    /\ UNCHANGED <<h_phase, h_unlockBlock, h_lastLedger, h_blockFeed,
                   h_monitor, h_prepareTimer>>
    /\ UNCHANGED notMonitor

\* Promise.all of the round resolves in call c (lines 1172-1203)
M_roundDone(c) ==
    /\ h_calls[c].pc = "inflight"
    /\ \E out \in Outcomes :
        IF out = "ok"
        THEN /\ h_status' = [h_status EXCEPT !.confirmed = TRUE]
             /\ h_calls' = [h_calls EXCEPT ![c] = NoCall]
             /\ UNCHANGED h_currentFee
        ELSE IF h_status.attempts < Monitor_maxSubmissionAttempts
             THEN /\ h_status' = [h_status EXCEPT !.submitted = FALSE]
                  /\ h_currentFee' = Monitor_bumpFee(h_currentFee)
                  /\ h_calls' = [h_calls EXCEPT ![c].pc = "retrywait"]
             ELSE /\ h_calls' = [h_calls EXCEPT ![c] = NoCall]
                  /\ UNCHANGED <<h_status, h_currentFee>>
    /\ UNCHANGED <<h_phase, h_cacheLoaded, h_unlockBlock, h_lastLedger,
                   h_blockFeed, h_monitor, h_prepareTimer, h_rounds,
                   h_lastFee, h_lastBuild>>
    /\ UNCHANGED notMonitor

\* the 1 s timer of line 1195 resolves: return this.prepareAndSubmitTransaction()
M_retry(c) ==
    /\ h_calls[c].pc = "retrywait"
    /\ enterCall(c, FALSE)
    /\ UNCHANGED <<h_phase, h_currentFee, h_cacheLoaded, h_unlockBlock,
                   h_lastLedger, h_blockFeed, h_monitor, h_prepareTimer,
                   h_rounds, h_lastFee, h_lastBuild>>
    /\ UNCHANGED notMonitor

NextMonitor ==
    \/ M_initialize
    \/ M_unlockReached
    \/ M_prepareTimer
    \/ M_handleNewBlock
    \/ \E c \in 1..MaxCalls : M_refreshed(c)
    \/ \E c \in 1..MaxCalls : M_roundDone(c)
    \/ \E c \in 1..MaxCalls : M_retry(c)

SpecMonitor == Init /\ [][NextMonitor]_vars

(***************************************************************************)
(* Flood: executeFlood of PiNetworkPrecisionClaimBot (pi-js-bot.js).       *)
(***************************************************************************)
\* max_fee.max of the feeStats() response read by initializeKeypairs, lines
\* 93-94, which Horizon sends as text
FeeStatsMax == {[text |-> TRUE, value |-> 100]}

RECURSIVE decimalShift(_)
\* 10 to the number of decimal digits of n
decimalShift(n) == IF n < 10 THEN 10 ELSE 10 * decimalShift(n \div 10)

\* line 362: this.baseFee + (i * this.feeIncrement), as the number that the
\* sort of line 422 and fee.toString() see; with a text baseFee the + appends
\* the digits of i * feeIncrement
txFee(baseFee, i) ==
    IF baseFee.text
    THEN baseFee.value * decimalShift(i * Flood_feeIncrement)
            + i * Flood_feeIncrement
    ELSE baseFee.value + i * Flood_feeIncrement

\* lines 358-419: one entry per i < txCount, pushed in the order of i, with
\* the operations claim, transfer
builtTransactions(baseFee) ==
    [k \in 1..TxCount |->
        [index |-> k - 1,
         fee |-> txFee(baseFee, k - 1),
         ops |-> <<"claimClaimableBalance", "pathPaymentStrictSend">>]]

RECURSIVE insertByFee(_, _)
\* t placed behind every entry whose fee is not lower
insertByFee(sorted, t) ==
    IF sorted = <<>> THEN <<t>>
    ELSE IF Head(sorted).fee < t.fee THEN <<t>> \o sorted
    ELSE <<Head(sorted)>> \o insertByFee(Tail(sorted), t)

\* a variant that leaves the list in the order it was built
sortByFeeDescending_unsorted(list) == list

RECURSIVE sortByFeeDescending(_)
\* line 422: this.transactions.sort((a, b) => b.fee - a.fee)
sortByFeeDescending(list) ==
    IF list = <<>> THEN <<>>
    ELSE insertByFee(sortByFeeDescending(SubSeq(list, 1, Len(list) - 1)),
                     list[Len(list)])

\* prepareTransactions, lines 358-422: this.transactions once it has run
prepareTransactions(baseFee) ==
    sortByFeeDescending(builtTransactions(baseFee))

\* line 479: the delay of the timer of the transaction at position i
timerDelay(i) == (i - 1) * Flood_txSpacingMs

\* timers run by delay, and by the order of arming among equal delays
timerIsNext(copies, i) ==
    \A j \in 1..TxCount :
        copies[j] = "timer" =>
            \/ timerDelay(j) > timerDelay(i)
            \/ timerDelay(j) = timerDelay(i) /\ j >= i

\* line 488: this.submissionResults.filter(r => r.success).length
successCount(results) ==
    Cardinality({k \in 1..Len(results) : results[k].success})

\* a variant that reports success only when no copy failed
floodOutcome_all(results) ==
    IF successCount(results) = Len(results) THEN "confirmed" ELSE "allFailed"

\* lines 492-496: what the flood reports once every copy has settled
floodOutcome(results) ==
    IF successCount(results) > 0 THEN "confirmed" ELSE "allFailed"

\* a variant that records accepted copies only
recordResult_successOnly(results, txInfo, ok) ==
    IF ok
    THEN Append(results, [success |-> TRUE, index |-> txInfo.index,
                          fee |-> txInfo.fee])
    ELSE results

\* the timer of a copy has run: submitTransaction was called for it
submissionStarted(copy) == copy \in {"inflight", "accepted", "rejected"}

\* lines 461-476: the entry pushed to submissionResults when the copy built
\* as txInfo settles
recordResult(results, txInfo, ok) ==
    Append(results, [success |-> ok, index |-> txInfo.index,
                     fee |-> txInfo.fee])

\* initializeKeypairs, lines 81-123, run by start() ahead of the flood
F_initializeKeypairs ==
    /\ f_phase = "idle"
    /\ f_baseFee' \in FeeStatsMax
    /\ UNCHANGED <<varsFloodRun, notFlood>>

\* prepareTransactions run ahead of the flood (start(), lines 628-636, or
\* checkUnlockTimeProximity, line 231)
F_prepareAhead ==
    /\ f_phase = "idle"
    /\ f_transactions = <<>>
    /\ f_transactions' = prepareTransactions(f_baseFee)
    /\ UNCHANGED <<f_baseFee, f_isRunning, f_phase, f_txInfos, f_copies,
                   f_submissionResults, f_outcome>>
    /\ UNCHANGED notFlood

\* stopBlockMonitoring, lines 210-217
stopBlockMonitoring ==
    IF k_blockMonitorInterval
    THEN /\ k_blockMonitorInterval' = FALSE
         /\ k_blockMonitoringActive' = FALSE
    ELSE UNCHANGED <<k_blockMonitorInterval, k_blockMonitoringActive>>

\* lines 447-483: one staggered timer per entry of this.transactions, each
\* holding its txInfo
Flood_armCopies ==
    /\ f_submissionResults' = <<>>
    /\ f_txInfos' = f_transactions'
    /\ f_copies' = [i \in 1..TxCount |-> "timer"]
    /\ f_phase' = "submitting"

\* executeFlood, lines 434-444
F_executeFlood ==
    /\ f_phase = "idle"
    /\ ~f_isRunning
    /\ f_isRunning' = TRUE
    /\ UNCHANGED <<f_baseFee, f_transactions, f_outcome>>
    /\ IF f_transactions = <<>>
       THEN /\ f_phase' = "preparing"
            /\ UNCHANGED <<f_txInfos, f_copies, f_submissionResults>>
       ELSE Flood_armCopies
    /\ UNCHANGED notFlood

\* await this.prepareTransactions() inside executeFlood resolves, or throws
\* into the catch of line 498 and the finally of lines 500-503
F_prepared ==
    /\ f_phase = "preparing"
    /\ \/ /\ f_transactions' = prepareTransactions(f_baseFee)
          /\ Flood_armCopies
          /\ UNCHANGED <<f_outcome, varsMonitoring>>
       \/ /\ f_phase' = "finished"
          /\ f_outcome' = "error"
          /\ UNCHANGED <<f_transactions, f_txInfos, f_copies,
                         f_submissionResults>>
          /\ stopBlockMonitoring
    /\ UNCHANGED <<f_baseFee, f_isRunning>>
    /\ UNCHANGED <<varsBlocksRest, notBlocks>>

\* the timer of copy i runs (delay i * txSpacingMs): submitTransaction
F_submit(i) ==
    /\ f_phase = "submitting"
    /\ f_copies[i] = "timer"
    /\ timerIsNext(f_copies, i)
    /\ f_copies' = [f_copies EXCEPT ![i] = "inflight"]
    /\ UNCHANGED <<f_baseFee, f_isRunning, f_phase, f_transactions, f_txInfos,
                   f_submissionResults, f_outcome>>
    /\ UNCHANGED notFlood

\* the submission of copy i settles (lines 458-478)
F_settle(i) ==
    /\ f_phase = "submitting"
    /\ f_copies[i] = "inflight"
    /\ \E ok \in BOOLEAN :
        /\ f_submissionResults' =
              recordResult(f_submissionResults, f_txInfos[i], ok)
        /\ f_copies' = [f_copies EXCEPT ![i] = IF ok THEN "accepted" ELSE "rejected"]
    /\ UNCHANGED <<f_baseFee, f_isRunning, f_phase, f_transactions, f_txInfos,
                   f_outcome>>
    /\ UNCHANGED notFlood

\* await Promise.all(submissionPromises) resolves (lines 486-503): the
\* report, then the finally of lines 500-503
F_join ==
    /\ f_phase = "submitting"
    /\ \A i \in 1..TxCount : f_copies[i] \in {"accepted", "rejected"}
    /\ f_outcome' = floodOutcome(f_submissionResults)
    /\ f_phase' = "finished"
    /\ stopBlockMonitoring
    /\ UNCHANGED <<f_baseFee, f_isRunning, f_transactions, f_txInfos, f_copies,
                   f_submissionResults>>
    /\ UNCHANGED <<varsBlocksRest, notBlocks>>

NextFlood ==
    \/ F_initializeKeypairs
    \/ F_prepareAhead
    \/ F_executeFlood
    \/ F_prepared
    \/ \E i \in 1..TxCount : F_submit(i)
    \/ \E i \in 1..TxCount : F_settle(i)
    \/ F_join

SpecFlood == Init /\ [][NextFlood]_vars

(***************************************************************************)
(* Blocks: start(), fetchClaimableBalanceDetails, startBlockMonitoring and *)
(* checkUnlockTimeProximity of PiNetworkPrecisionClaimBot (pi-js-bot.js).  *)
(***************************************************************************)
\* unlock instants (ms) a payload or the constructor's option may carry
UnlockInstants == {1000, 2000}

\* the predicate of the source account in the fetched payload
FetchPredicates ==
    {[unconditional |-> TRUE]}
    \cup {[not |-> [abs_before |-> u, abs_before_epoch |-> u \div 1000]] :
            u \in UnlockInstants}

\* currentCloseTime - lastLedgerCloseTime of a new ledger: on time, or late
BlockTimes == {5000, 7000}

\* how many of the first `ledgerNum` ledgers closed late, given the close
\* time of the last of them
slowBlocks(closeTime, ledgerNum) == (closeTime - ledgerNum * 5000) \div 2000

\* this.unlockTimestamp - Date.now() as the callers may find it
TimeToUnlockValues == {0 - 1, 0, 9000, 20000, 60000}

\* the readings open to a caller, before and from the unlock instant on
timeToUnlockReadings(unlockPassed) ==
    {t \in TimeToUnlockValues : (t <= 0) = unlockPassed}

\* whether the unlock instant lies in the past when unlockTimestamp is set
clockWhenSet(unlockTimestamp) ==
    IF unlockTimestamp = 0 THEN {FALSE} ELSE BOOLEAN

\* a variant that takes the unlock instant itself as not yet passed
pastUnlock_strict(timeToUnlock) == timeToUnlock < 0

\* line 259: timeToUnlock <= 0
pastUnlock(timeToUnlock) == timeToUnlock <= 0

\* a variant that takes the latest ledger itself as new
isNewLedger_orSame(currentLedgerNum, latestLedgerNum) ==
    currentLedgerNum >= latestLedgerNum

\* line 178: currentLedgerNum > this.latestLedgerNum
isNewLedger(currentLedgerNum, latestLedgerNum) ==
    currentLedgerNum > latestLedgerNum

\* new Date(claimant.predicate.not.abs_before).getTime(), 0 without one
fetchedUnlockTime(predicate) ==
    IF HasField(predicate, "not") /\ HasField(predicate.not, "abs_before")
    THEN predicate.not.abs_before
    ELSE 0

\* a variant that takes the payload's instant at every fetch
fetchedUnlockTimestamp_overwrite(unlockTimestamp, predicate) ==
    IF fetchedUnlockTime(predicate) # 0
    THEN fetchedUnlockTime(predicate)
    ELSE unlockTimestamp

\* fetchClaimableBalanceDetails, lines 298-307: this.unlockTimestamp after
\* the fetch
fetchedUnlockTimestamp(unlockTimestamp, predicate) ==
    IF fetchedUnlockTime(predicate) # 0 /\ unlockTimestamp = 0
    THEN fetchedUnlockTime(predicate)
    ELSE unlockTimestamp

\* a variant that never drops a sample
pushBlockTime_unbounded(blockTimes, blockTime) ==
    Append(blockTimes, blockTime)

\* lines 180-185: push, then shift when more than 10 are held
pushBlockTime(blockTimes, blockTime) ==
    LET pushed == Append(blockTimes, blockTime)
    IN  IF Len(pushed) > Blocks_historySize THEN Tail(pushed) ELSE pushed

RECURSIVE SumSeq(_)
SumSeq(q) == IF q = <<>> THEN 0 ELSE Head(q) + SumSeq(Tail(q))

\* a variant that leaves the newest sample out of the mean
avgBlockTimeMs_withoutNewest(blockTimes) ==
    IF Len(blockTimes) = 1
    THEN [sum |-> Blocks_initialAvg, n |-> 1]
    ELSE [sum |-> SumSeq(SubSeq(blockTimes, 1, Len(blockTimes) - 1)),
          n |-> Len(blockTimes) - 1]

\* line 188: reduce((sum, time) => sum + time, 0) / blockTimes.length, kept
\* as the fraction sum / n
avgBlockTimeMs(blockTimes) ==
    [sum |-> SumSeq(blockTimes), n |-> Len(blockTimes)]

\* line 235: timeToUnlock < this.avgBlockTimeMs * 2
withinTwoBlocks(timeToUnlock, avg) ==
    timeToUnlock * avg.n < avg.sum * 2

\* line 242, expectedNextBlockTime >= this.unlockTimestamp, as it may turn
\* out where the test of line 235 lets it be evaluated
nextBlockReadings(timeToUnlock, avg) ==
    IF timeToUnlock > 0 /\ withinTwoBlocks(timeToUnlock, avg)
    THEN BOOLEAN
    ELSE {FALSE}

\* line 239: this.lastLedgerCloseTime + this.avgBlockTimeMs, as a fraction
expectedNextBlockTime(lastLedgerCloseTime, avg) ==
    [sum |-> lastLedgerCloseTime * avg.n + avg.sum, n |-> avg.n]

\* a variant of executeFlood without the test of isRunning
Flood_enter_unguarded ==
    /\ f_isRunning' = TRUE
    /\ UNCHANGED <<f_transactions, f_outcome>>
    /\ IF f_transactions = <<>>
       THEN /\ f_phase' = "preparing"
            /\ UNCHANGED <<f_txInfos, f_copies, f_submissionResults>>
       ELSE Flood_armCopies

\* executeFlood called by start(), by checkUnlockTimeProximity or by a
\* timer: lines 434-444 and the arming of the copies
Flood_enter ==
    IF f_isRunning
    THEN UNCHANGED varsFloodRun
    ELSE /\ f_isRunning' = TRUE
         /\ UNCHANGED <<f_transactions, f_outcome>>
         /\ IF f_transactions = <<>>
            THEN /\ f_phase' = "preparing"
                 /\ UNCHANGED <<f_txInfos, f_copies, f_submissionResults>>
            ELSE Flood_armCopies

\* prepareTransactions called without await; the flood is left as it is
Flood_prepare ==
    /\ f_transactions' = prepareTransactions(f_baseFee')
    /\ UNCHANGED <<f_isRunning, f_phase, f_txInfos, f_copies,
                   f_submissionResults, f_outcome>>

\* checkUnlockTimeProximity, lines 222-263, with the average and the close
\* time it finds
checkUnlockTimeProximity(timeToUnlock, nextBlockAfterUnlock, avg, closeTime) ==
    IF k_unlockTimestamp = 0
    THEN /\ k_expectedNextBlockTime' = NoEstimate
         /\ UNCHANGED <<varsFloodRun, k_floodTimers>>
    ELSE /\ IF pastUnlock(timeToUnlock)
            THEN Flood_enter
            ELSE IF timeToUnlock < Blocks_prepareLead /\ f_transactions = <<>>
                 THEN Flood_prepare
                 ELSE UNCHANGED varsFloodRun
         /\ IF timeToUnlock > 0 /\ withinTwoBlocks(timeToUnlock, avg)
            THEN k_expectedNextBlockTime' =
                    expectedNextBlockTime(closeTime, avg)
            ELSE k_expectedNextBlockTime' = NoEstimate
         /\ IF /\ timeToUnlock > 0
               /\ withinTwoBlocks(timeToUnlock, avg)
               /\ nextBlockAfterUnlock
               /\ k_floodTimers < MaxFloodTimers
            THEN k_floodTimers' = k_floodTimers + 1
            ELSE UNCHANGED k_floodTimers

\* new PiNetworkPrecisionClaimBot({..., unlockTimestamp}), lines 17-76
K_construct ==
    /\ k_phase = "unbuilt"
    /\ k_phase' = "built"
    /\ k_unlockTimestamp' \in {0} \cup UnlockInstants
    /\ k_unlockPassed' \in clockWhenSet(k_unlockTimestamp')
    /\ UNCHANGED k_lastResponse
    /\ UNCHANGED <<k_starts, k_lastFetched, k_blockMonitoringActive,
                   k_blockMonitorInterval, k_latestLedgerNum,
                   k_lastLedgerCloseTime, k_blockTimes, k_avgBlockTimeMs,
                   k_expectedNextBlockTime, k_prepareTimers, k_floodTimers>>
    /\ UNCHANGED <<k_stopped, varsFlood, notBlocks>>

\* how the ledgers() call of line 163 may end; line 157 returns before it
\* when monitoring is active
ledgersOutcomes == IF k_blockMonitoringActive THEN {TRUE} ELSE BOOLEAN

\* startBlockMonitoring, lines 156-205, as called by start(): FALSE when
\* the first ledgers() call throws
startBlockMonitoring(ledgerOk) ==
    IF k_blockMonitoringActive
    THEN UNCHANGED <<k_blockMonitoringActive, k_blockMonitorInterval>>
    ELSE /\ k_blockMonitoringActive' = TRUE
         /\ k_blockMonitorInterval' = ledgerOk

\* start(), lines 607-642: initializeKeypairs (which takes this.baseFee from
\* feeStats, lines 93-94), fetchClaimableBalanceDetails, then
\* startBlockMonitoring, then the flood at once, the prepare timer, or
\* prepareTransactions at once
K_start ==
    /\ k_phase = "built"
    /\ k_starts < MaxStarts
    /\ k_starts' = k_starts + 1
    /\ k_stopped' = FALSE
    /\ \/ \* initializeKeypairs throws
          UNCHANGED <<k_unlockTimestamp, k_lastFetched, k_unlockPassed,
                      k_blockMonitoringActive, k_blockMonitorInterval,
                      k_prepareTimers, varsFlood>>
       \/ \* fetchClaimableBalanceDetails throws
          /\ f_baseFee' \in FeeStatsMax
          /\ UNCHANGED <<k_unlockTimestamp, k_lastFetched, k_unlockPassed,
                         k_blockMonitoringActive, k_blockMonitorInterval,
                         k_prepareTimers, varsFloodRun>>
       \/ \E predicate \in FetchPredicates, ledgerOk \in ledgersOutcomes :
            /\ f_baseFee' \in FeeStatsMax
            /\ k_unlockTimestamp' =
                  fetchedUnlockTimestamp(k_unlockTimestamp, predicate)
            /\ k_lastFetched' = fetchedUnlockTime(predicate)
            /\ IF k_unlockTimestamp = 0
               THEN k_unlockPassed' \in clockWhenSet(k_unlockTimestamp')
               ELSE UNCHANGED k_unlockPassed
            /\ startBlockMonitoring(ledgerOk)
            /\ IF (~k_blockMonitoringActive /\ ~ledgerOk)
                  \/ k_unlockTimestamp' = 0
               THEN UNCHANGED <<k_prepareTimers, varsFloodRun>>
               ELSE \E timeToUnlock \in timeToUnlockReadings(k_unlockPassed') :
                    IF timeToUnlock <= 0
                    THEN Flood_enter /\ UNCHANGED k_prepareTimers
                    ELSE IF timeToUnlock > Blocks_prepareLead
                         THEN /\ k_prepareTimers' = k_prepareTimers + 1
                              /\ UNCHANGED varsFloodRun
                         ELSE Flood_prepare /\ UNCHANGED k_prepareTimers
    /\ UNCHANGED <<k_phase, k_latestLedgerNum, k_lastLedgerCloseTime,
                   k_blockTimes, k_avgBlockTimeMs, k_expectedNextBlockTime,
                   k_floodTimers, k_lastResponse>>
    /\ UNCHANGED notBlocks

\* the timer of start() line 630 runs: prepareTransactions()
K_prepareTimer ==
    /\ k_prepareTimers > 0
    /\ k_prepareTimers' = k_prepareTimers - 1
    /\ UNCHANGED f_baseFee
    /\ Flood_prepare
    /\ UNCHANGED <<k_phase, k_starts, k_unlockTimestamp, k_lastFetched,
                   k_blockMonitoringActive, k_blockMonitorInterval,
                   k_latestLedgerNum, k_lastLedgerCloseTime, k_blockTimes,
                   k_avgBlockTimeMs, k_expectedNextBlockTime, k_floodTimers>>
    /\ UNCHANGED <<k_stopped, k_unlockPassed, k_lastResponse, notBlocks>>

\* the interval callback of lines 170-202 from the point where its
\* ledgers() call has resolved with the ledger currentLedgerNum (a callback
\* whose call throws changes nothing)
ledgerResponse(currentLedgerNum) ==
    /\ k_blockMonitorInterval
    /\ UNCHANGED f_baseFee
    /\ IF isNewLedger(currentLedgerNum, k_latestLedgerNum)
       THEN \E blockTime \in BlockTimes,
               timeToUnlock \in timeToUnlockReadings(k_unlockPassed) :
            /\ blockTime > Blocks_initialAvg =>
                  slowBlocks(k_lastLedgerCloseTime, k_latestLedgerNum)
                    < MaxSlowBlocks
            /\ k_lastResponse' = "new"
            /\ k_blockTimes' = pushBlockTime(k_blockTimes, blockTime)
            /\ k_latestLedgerNum' = currentLedgerNum
            /\ k_lastLedgerCloseTime' = k_lastLedgerCloseTime + blockTime
            /\ k_avgBlockTimeMs' = avgBlockTimeMs(k_blockTimes')
            /\ \E nextBlockAfterUnlock \in
                     nextBlockReadings(timeToUnlock, k_avgBlockTimeMs') :
                  checkUnlockTimeProximity(timeToUnlock, nextBlockAfterUnlock,
                                           k_avgBlockTimeMs',
                                           k_lastLedgerCloseTime')
       ELSE /\ k_lastResponse' = "old"
            /\ UNCHANGED <<k_blockTimes, k_latestLedgerNum,
                           k_lastLedgerCloseTime, k_avgBlockTimeMs,
                           k_expectedNextBlockTime, k_floodTimers,
                           varsFloodRun>>
    /\ UNCHANGED <<k_phase, k_starts, k_unlockTimestamp, k_lastFetched,
                   k_blockMonitoringActive, k_blockMonitorInterval,
                   k_prepareTimers>>
    /\ UNCHANGED <<k_stopped, k_unlockPassed, notBlocks>>

\* the callback finds the ledger that follows the latest one
K_blockObserved ==
    /\ k_latestLedgerNum < MaxBlocks
    /\ ledgerResponse(k_latestLedgerNum + 1)

\* Date.now() reaches this.unlockTimestamp
K_clock ==
    /\ k_unlockTimestamp # 0
    /\ ~k_unlockPassed
    /\ k_unlockPassed' = TRUE
    /\ UNCHANGED <<k_phase, k_starts, k_unlockTimestamp, k_lastFetched,
                   k_blockMonitoringActive, k_blockMonitorInterval,
                   k_latestLedgerNum, k_lastLedgerCloseTime, k_blockTimes,
                   k_avgBlockTimeMs, k_expectedNextBlockTime,
                   k_prepareTimers, k_floodTimers, k_stopped, k_lastResponse>>
    /\ UNCHANGED <<varsFlood, notBlocks>>

\* the timers of lines 247-254 run: executeFlood()
K_floodTimer ==
    /\ k_floodTimers > 0
    /\ k_floodTimers' = k_floodTimers - 1
    /\ UNCHANGED f_baseFee
    /\ Flood_enter
    /\ UNCHANGED <<k_phase, k_starts, k_unlockTimestamp, k_lastFetched,
                   k_blockMonitoringActive, k_blockMonitorInterval,
                   k_latestLedgerNum, k_lastLedgerCloseTime, k_blockTimes,
                   k_avgBlockTimeMs, k_expectedNextBlockTime,
                   k_prepareTimers>>
    /\ UNCHANGED <<k_stopped, k_unlockPassed, k_lastResponse, notBlocks>>

\* stop(), lines 656-661: stopBlockMonitoring (lines 210-217) clears the
\* interval if there is one, then isRunning = false; no other timer is
\* cleared
K_stop ==
    /\ k_phase = "built"
    /\ k_stopped' = TRUE
    /\ stopBlockMonitoring
    /\ f_isRunning' = FALSE
    /\ UNCHANGED <<f_baseFee, f_phase, f_transactions, f_txInfos, f_copies,
                   f_submissionResults, f_outcome>>
    /\ UNCHANGED <<k_phase, k_starts, k_unlockTimestamp, k_lastFetched,
                   k_latestLedgerNum, k_lastLedgerCloseTime, k_blockTimes,
                   k_avgBlockTimeMs, k_expectedNextBlockTime,
                   k_prepareTimers, k_floodTimers, k_unlockPassed,
                   k_lastResponse>>
    /\ UNCHANGED notBlocks

NextBlocks ==
    \/ K_construct
    \/ K_start
    \/ K_prepareTimer
    \/ K_blockObserved
    \/ K_floodTimer
    \/ K_clock

SpecBlocks == Init /\ [][NextBlocks]_vars

\* the same bot with stop() called at any moment
NextStop ==
    \/ NextBlocks
    \/ K_stop

SpecStop == Init /\ [][NextStop]_vars

\* triggerClaimNow, lines 647-651
K_triggerClaimNow ==
    /\ k_phase = "built"
    /\ UNCHANGED f_baseFee
    /\ Flood_enter
    /\ UNCHANGED <<varsBlocks, notBlocks>>

\* the ledgers() call of an interval callback resolves with the ledger that
\* follows the latest one, with a later one, or with one seen before
K_watch ==
    \E currentLedgerNum \in 1..MaxWatched : ledgerResponse(currentLedgerNum)

\* every caller of executeFlood, with stop() left out: start(), the block
\* monitor and its timers, the manual trigger; and the flood they start, up
\* to the start of its submissions
NextTriggers ==
    \/ K_construct
    \/ K_start
    \/ K_prepareTimer
    \/ K_watch
    \/ K_floodTimer
    \/ K_clock
    \/ K_triggerClaimNow
    \/ F_prepared
    \/ \E i \in 1..TxCount : F_submit(i)

SpecTriggers == Init /\ [][NextTriggers]_vars

\* start(), the block monitor and its timers alone
NextWatch ==
    \/ K_construct
    \/ K_start
    \/ K_prepareTimer
    \/ K_watch
    \/ K_floodTimer
    \/ K_clock

SpecWatch == Init /\ [][NextWatch]_vars

\* a callback finds a ledger newer than the latest
K_newLedger == K_watch /\ k_latestLedgerNum' > k_latestLedgerNum

\* the same while the block monitor keeps observing new ledgers
SpecWatchLive == SpecWatch /\ WF_vars(K_newLedger)

\* start() and triggerClaimNow in any order, and the flood to its end
NextLifecycle ==
    \/ K_construct
    \/ K_start
    \/ K_triggerClaimNow
    \/ F_prepared
    \/ \E i \in 1..TxCount : F_submit(i)
    \/ \E i \in 1..TxCount : F_settle(i)
    \/ F_join

SpecLifecycle == Init /\ [][NextLifecycle]_vars

(***************************************************************************)
(* Fee quotes: the two updateFeeStats as functions of the percentile.      *)
(***************************************************************************)
\* percentile inputs: a grid of step 12500, and values just off the grid
QuoteInputs == {k * 12500 + d : k \in 0..QuoteSteps, d \in {0, 1, 49}}

Q_updateFeeStats_p99 ==
    /\ \E p \in QuoteInputs :
        /\ q_p' = p
        /\ q_bid' = updateFeeStats_p99(p)
    /\ q_variant' = "p99"
    /\ UNCHANGED notQuote

Q_updateFeeStats_p80 ==
    /\ \E p \in QuoteInputs :
        /\ q_p' = p
        /\ q_bid' = updateFeeStats_p80(p)
    /\ q_variant' = "p80"
    /\ UNCHANGED notQuote

NextQuote ==
    \/ Q_updateFeeStats_p99
    \/ Q_updateFeeStats_p80

SpecQuote == Init /\ [][NextQuote]_vars

(***************************************************************************)
(* Predicate evaluation: extractMinTime of the Sweeper, and                *)
(* hasTimeBasedPredicate / findUnlockTimeInPredicate of the Monitor, as    *)
(* functions of the claimant predicate.                                    *)
(***************************************************************************)
\* A predicate is the JSON object of the ledger: a record holding only the
\* fields that are present.  A time bound carries abs_before and
\* abs_before_epoch together.
Unconditional == [unconditional |-> TRUE]
Before(t) == [abs_before |-> t, abs_before_epoch |-> t]
PredicateLeaves ==
    {Unconditional}
    \cup {Before(t) : t \in 1..MaxPredTime}
    \cup {[not |-> Before(t)] : t \in 1..MaxPredTime}

PredicatePairs ==
    {[and |-> <<a, b>>] : a \in PredicateLeaves, b \in PredicateLeaves}
    \cup {[or |-> <<a, b>>] : a \in PredicateLeaves, b \in PredicateLeaves}

PredicateTrees ==
    PredicateLeaves
    \cup PredicatePairs
    \cup {[not |-> c] : c \in PredicatePairs}
    \cup {[and |-> <<c, Unconditional>>] : c \in PredicatePairs}
    \cup {[or |-> <<Unconditional, c>>] : c \in PredicatePairs}

\* hasTimeBasedPredicate, lines 860-880
RECURSIVE hasTimeBasedPredicate(_)
hasTimeBasedPredicate(predicate) ==
    IF \/ HasField(predicate, "abs_before")
       \/ HasField(predicate, "not")
       \/ HasField(predicate, "abs_before_epoch")
    THEN TRUE
    ELSE IF HasField(predicate, "and")
              /\ \E i \in 1..Len(predicate.and) :
                    hasTimeBasedPredicate(predicate.and[i])
         THEN TRUE
         ELSE /\ HasField(predicate, "or")
              /\ \E i \in 1..Len(predicate.or) :
                    hasTimeBasedPredicate(predicate.or[i])

\* findUnlockTimeInPredicate, lines 896-925; null is 0.  The loops over
\* predicate.and and predicate.or return the first truthy time.
RECURSIVE findUnlockTimeInPredicate(_)
RECURSIVE firstUnlockTime(_)
firstUnlockTime(subPredicates) ==
    LET hits == {i \in 1..Len(subPredicates) :
                    findUnlockTimeInPredicate(subPredicates[i]) # 0}
    IN  IF hits = {} THEN 0
        ELSE findUnlockTimeInPredicate(subPredicates[MinOf(hits)])

findUnlockTimeInPredicate(predicate) ==
    IF HasField(predicate, "abs_before_epoch")
    THEN predicate.abs_before_epoch * 1000
    ELSE IF HasField(predicate, "not")
              /\ HasField(predicate.not, "abs_before_epoch")
         THEN predicate.not.abs_before_epoch * 1000
         ELSE LET inAnd == IF HasField(predicate, "and")
                           THEN firstUnlockTime(predicate.and) ELSE 0
              IN  IF inAnd # 0 THEN inAnd
                  ELSE IF HasField(predicate, "or")
                       THEN firstUnlockTime(predicate.or) ELSE 0

\* detectClaimableBalances, lines 805-815, on a balance whose claimant
\* predicate for the target is `predicate`
P_findUnlockTimeInPredicate ==
    /\ \E predicate \in PredicateTrees :
        /\ p_pred' = predicate
        /\ p_timeLocked' = hasTimeBasedPredicate(predicate)
        /\ p_unlock' = findUnlockTimeInPredicate(predicate)
    /\ p_evaluator' = "findUnlockTimeInPredicate"
    /\ p_tx' = NoTx
    /\ UNCHANGED notPredicate

\* start() of the Sweeper, lines 231-235, on such a balance
P_extractMinTime ==
    /\ \E predicate \in PredicateTrees :
        LET balance == [id |-> "tree", amount |-> 1,
                        claimants |-> << [destination |-> TargetKey,
                                          predicate |-> predicate] >>]
        IN  /\ p_pred' = predicate
            /\ p_unlock' = extractMinTime(balance)
            /\ p_timeLocked' = (extractMinTime(balance) # 0)
    /\ p_evaluator' = "extractMinTime"
    /\ p_tx' = NoTx
    /\ UNCHANGED notPredicate

\* buildAndSign of the Sweeper, lines 134-169, called on such a balance:
\* it takes extractMinTime(balance) as it comes and builds
P_buildAndSign ==
    /\ \E predicate \in PredicateTrees :
        LET balance == [id |-> "tree", amount |-> 1,
                        claimants |-> << [destination |-> TargetKey,
                                          predicate |-> predicate] >>]
        IN  /\ p_pred' = predicate
            /\ p_unlock' = extractMinTime(balance)
            /\ p_timeLocked' = (extractMinTime(balance) # 0)
            /\ p_tx' = buildAndSign(balance, 0, Sweeper_baseFee)
    /\ p_evaluator' = "buildAndSign"
    /\ UNCHANGED notPredicate

NextPredicate ==
    \/ P_findUnlockTimeInPredicate
    \/ P_extractMinTime
    \/ P_buildAndSign

SpecPredicate == Init /\ [][NextPredicate]_vars

(***************************************************************************)
(* Trigger times: the instant at which start() and checkUnlockTimeProximity *)
(* invoke executeFlood, as functions of the clock and the block estimate.  *)
(***************************************************************************)
\* lines 253-254: the lead before the expected block, the inner delay
Blocks_nextBlockLead == 500
Blocks_floodDelay == 100

\* unlock instants, clock readings, close times of the latest ledger and
\* averages (5000, 5300, 5666.67 ms) the triggers are evaluated on
TimingUnlocks == {20000, 20300}
TimingNows == {11000, 15000, 15250, 19600, 19900, 20000, 21000}
TimingCloses == {10000, 14000, 14700, 15000, 19000}
TimingAverages ==
    {[sum |-> 5000, n |-> 1], [sum |-> 10600, n |-> 2], [sum |-> 17000, n |-> 3]}

\* by how much a timer may run after its delay has passed
TimerLateness == {0, 3}

\* a variant that arms the timer wherever the next block is expected
nextBlockAfterUnlock_always(expected, unlockTimestamp) == TRUE

\* line 242: expectedNextBlockTime >= this.unlockTimestamp
nextBlockAfterUnlock(expected, unlockTimestamp) ==
    expected.sum >= unlockTimestamp * expected.n

\* line 254: Math.max(0, timeToNextBlock - 500) with timeToNextBlock =
\* expectedNextBlockTime - now, cut to whole milliseconds by setTimeout
floodTimerDelay(expected, now) ==
    Max(0, (expected.sum - (now + Blocks_nextBlockLead) * expected.n)
              \div expected.n)

\* start(), lines 620-623, for an unlockTimestamp and a clock reading
T_start ==
    /\ \E unlockTimestamp \in TimingUnlocks, now \in TimingNows :
        /\ t_unlock' = unlockTimestamp
        /\ t_now' = now
        /\ IF now >= unlockTimestamp
           THEN t_trigger' = "start" /\ t_floodAt' = now
           ELSE t_trigger' = "none" /\ t_floodAt' = 0
    /\ UNCHANGED <<t_close, t_avg, notTiming>>

\* checkUnlockTimeProximity, lines 222-263, for an unlockTimestamp, a clock
\* reading and a block estimate, with isRunning false: the timers of lines
\* 247-254, or the call of line 261
T_checkUnlockTimeProximity ==
    /\ \E unlockTimestamp \in TimingUnlocks, now \in TimingNows,
          lastLedgerCloseTime \in TimingCloses, avg \in TimingAverages,
          late \in TimerLateness :
        LET timeToUnlock == unlockTimestamp - now
            expected == expectedNextBlockTime(lastLedgerCloseTime, avg)
        IN  /\ t_unlock' = unlockTimestamp
            /\ t_now' = now
            /\ t_close' = lastLedgerCloseTime
            /\ t_avg' = avg
            /\ IF /\ timeToUnlock > 0
                  /\ withinTwoBlocks(timeToUnlock, avg)
                  /\ nextBlockAfterUnlock(expected, unlockTimestamp)
               THEN /\ t_trigger' = "timer"
                    /\ t_floodAt' = now + floodTimerDelay(expected, now)
                                        + Blocks_floodDelay + late
               ELSE IF pastUnlock(timeToUnlock)
                    THEN t_trigger' = "pastUnlock" /\ t_floodAt' = now
                    ELSE t_trigger' = "none" /\ t_floodAt' = 0
    /\ UNCHANGED notTiming

NextTiming ==
    \/ T_start
    \/ T_checkUnlockTimeProximity

SpecTiming == Init /\ [][NextTiming]_vars

(***************************************************************************)
(* Claims.                                                                 *)
(***************************************************************************)

\* C1: when every submission for a balance fails with a retryable error, at
\* most maxSubmissionAttempts submissions are issued for it (Sweeper,
\* submitWithRetries).
C1_RetryBound ==
    (\A i \in 1..Len(e_subs) : e_subs[i].out = "retryable")
        => Len(e_subs) <= Sweeper_maxSubmissionAttempts

\* C2: a terminal rejection is the last submission of its balance: no fee
\* escalation and no further submission follows it (Sweeper,
\* submitWithRetries).
C2_TerminalHaltsRetries ==
    \A i \in 1..(Len(e_subs) - 1) : e_subs[i].out # "terminal"

\* C3: the fee carried by a submission round is at least the fee carried by
\* the round before it (Monitor, prepareAndSubmitTransaction with its
\* refreshAccountData step).
C3_FeeNonDecreasing ==
    [][(h_rounds' > h_rounds /\ h_rounds > 0) => h_lastFee' >= h_lastFee]_vars

\* C4: every submission, initial or escalated, carries a fee of at most
\* maxFee (Sweeper).
C4_FeeAtMostCeiling ==
    \A i \in 1..Len(e_subs) : e_subs[i].fee <= Sweeper_maxFee

\* C5: the fee set by updateFeeStats equals
\* clamp(max(p * multiplier, floor), floor, ceiling) rounded up to a multiple
\* of 100, for the p99 variant and for the p80 variant.
C5_QuoteIsClampedAndRounded ==
    q_variant # "none" =>
        LET mult == IF q_variant = "p99" THEN Sweeper_feePriorityMultiplier
                    ELSE Loop_feePriorityMultiplier
            floor == IF q_variant = "p99" THEN Sweeper_baseFee ELSE Loop_baseFee
            ceiling == IF q_variant = "p99" THEN Sweeper_maxFee ELSE Loop_maxFee
            clamped == Min(Max(Max(q_p * mult, floor), floor), ceiling)
        IN  q_bid = ceil100(clamped)

\* C6 as stated: a build made while the fee statistics are unavailable uses
\* the floor baseFee (Monitor).
C6_UnavailableMeansFloor ==
    (h_lastBuild.built /\ h_lastBuild.stats = "unavailable")
        => h_lastBuild.fee = Monitor_baseFee

\* C6 as the code has it: a build made while the fee statistics are
\* unavailable uses the fee that was current before the refresh, which is
\* never below baseFee (Monitor).
C6_UnavailableKeepsFee ==
    (h_lastBuild.built /\ h_lastBuild.stats = "unavailable")
        => /\ h_lastBuild.fee = h_lastBuild.feeBefore
           /\ h_lastBuild.fee >= Monitor_baseFee

\* C6 witness: a build made without statistics at a fee other than baseFee.
C6_Witness ==
    /\ h_lastBuild.built
    /\ h_lastBuild.stats = "unavailable"
    /\ h_lastBuild.fee # Monitor_baseFee

\* C7: once executeFlood has joined its copies, if any copy was accepted
\* the flood reports success, whatever the order of completion and however
\* many other copies were rejected.
C7_FloodConfirmedIfAnySucceeds ==
    (f_phase = "finished" /\ \E i \in 1..TxCount : f_copies[i] = "accepted")
        => f_outcome = "confirmed"

\* C7 witness: of three copies the second completes first and is accepted,
\* the first and the third are rejected, and the flood reports success.
C7_Witness ==
    /\ f_phase = "finished"
    /\ Len(f_submissionResults) = 3
    /\ f_submissionResults[1].success
    /\ f_submissionResults[1].index = f_transactions[2].index
    /\ ~f_submissionResults[2].success
    /\ ~f_submissionResults[3].success
    /\ f_outcome = "confirmed"

\* C8: when start() leaves the retry loop of a balance and moves on, no
\* flood copy started for it is still pending (Loop).
C8_FloodJoinedBeforeMovingOn ==
    [][(l_pc = "attempt" /\ (l_idx' # l_idx \/ l_pc' # l_pc))
            => l_timers' + l_inflight' = 0]_vars

\* C9: at most one submission round is in flight at any instant (Monitor).
C9_AttemptsSequential ==
    Cardinality({c \in 1..MaxCalls : h_calls[c].pc = "inflight"}) <= 1

\* C10: no transaction is built before unlockTime - earlySubmitOffset
\* (Sweeper).
C10_NoBuildBeforeSubmitTime ==
    e_tx.built => e_tx.builtAt >= e_tx.unlockTime - Sweeper_earlySubmitOffset

\* C11: every built transaction has the validity window
\* [unlockTime - earlySubmitOffset, unlockTime + timeboundGrace] (Sweeper,
\* buildAndSign).
C11_ValidityWindow ==
    e_tx.built =>
        /\ e_tx.minTime = e_tx.unlockTime - Sweeper_earlySubmitOffset
        /\ e_tx.maxTime = e_tx.unlockTime + Sweeper_timeboundGrace

\* C12: the validity window of every built transaction contains the unlock
\* instant: lower bound <= unlock instant <= upper bound (Sweeper).
C12_WindowContainsUnlock ==
    e_tx.built =>
        /\ e_tx.minTime <= e_tx.unlockTime
        /\ e_tx.unlockTime <= e_tx.maxTime

\* C12 witness: a transaction built for the balance unlocking at NearUnlock.
C12_Witness ==
    /\ e_tx.built
    /\ e_tx.unlockTime = NearUnlock
    /\ e_tx.minTime <= NearUnlock
    /\ e_tx.maxTime = NearUnlock + Sweeper_timeboundGrace

\* C13: every submission, initial or fee-bumped, carries the operations
\* claimClaimableBalance then payment, in that order, in one transaction
\* (Sweeper).
C13_ClaimThenTransfer ==
    \A i \in 1..Len(e_subs) :
        e_subs[i].ops = <<"claimClaimableBalance", "payment">>

\* C13 witness: an initial submission and a fee-bumped one, both issued.
C13_Witness ==
    /\ Len(e_subs) >= 2
    /\ e_subs[2].fee > e_subs[1].fee
    /\ e_subs[2].ops = <<"claimClaimableBalance", "payment">>

\* C14: every submission of a balance's retry sequence carries the inner
\* transaction that was built and signed before the first submission: no
\* retry rebuilds or re-signs it (Loop, retry loop of start()).
C14_InnerTransactionUnchanged ==
    \A i \in 1..Len(l_subs) : l_subs[i].build = l_subs[1].build

\* whether a predicate tree holds an absolute-time bound at any depth
RECURSIVE ContainsTimeBound(_)
ContainsTimeBound(predicate) ==
    \/ HasField(predicate, "abs_before_epoch")
    \/ HasField(predicate, "not") /\ ContainsTimeBound(predicate.not)
    \/ HasField(predicate, "and")
         /\ \E i \in 1..Len(predicate.and) : ContainsTimeBound(predicate.and[i])
    \/ HasField(predicate, "or")
         /\ \E i \in 1..Len(predicate.or) : ContainsTimeBound(predicate.or[i])

\* C15: for a predicate that is an AND, the instant returned by
\* findUnlockTimeInPredicate is <= the instant of every child that resolves;
\* for an OR it is the instant of the first child that resolves.
C15_AndOrResolution ==
    p_evaluator = "findUnlockTimeInPredicate" =>
        /\ HasField(p_pred, "and") =>
              \A i \in 1..Len(p_pred.and) :
                  findUnlockTimeInPredicate(p_pred.and[i]) # 0
                      => /\ p_unlock # 0
                         /\ p_unlock <= findUnlockTimeInPredicate(p_pred.and[i])
        /\ HasField(p_pred, "or") => p_unlock = firstUnlockTime(p_pred.or)

\* C16: a predicate tree that holds an absolute-time bound at any depth
\* under and / or / not resolves to an unlock instant, so that the balance
\* is not skipped, in extractMinTime and in findUnlockTimeInPredicate.
C16_NestedBoundResolved ==
    (p_evaluator # "none" /\ ContainsTimeBound(p_pred)) => p_unlock # 0

\* whether the target's predicate of a balance has no time bound
C17_Untimed(balance) ==
    findClaimant(balance.claimants).predicate = [unconditional |-> TRUE]

C18_BareBeforeNotAnUnlock ==
    (p_evaluator # "none" /\ HasField(p_pred, "abs_before_epoch"))
        => p_unlock = 0

\* C19: once this.unlockTimestamp is set it never changes, also when the
\* balance is fetched again (PiNetworkPrecisionClaimBot).
C19_UnlockInstantImmutable ==
    [][k_unlockTimestamp # 0 => k_unlockTimestamp' = k_unlockTimestamp]_vars

\* C19 witness: the balance was fetched a second time, the payload carried
\* another instant, and the resolved one is still held.
C19_Witness ==
    /\ k_starts = 2
    /\ k_unlockTimestamp # 0
    /\ k_lastFetched # 0
    /\ k_lastFetched # k_unlockTimestamp

\* C20: blockTimes never holds more than 10 samples, and a ledger observed
\* with 10 samples held drops the oldest: the 9 newest move up by one.
C20_HistoryBounded ==
    [][/\ Len(k_blockTimes') <= Blocks_historySize
       /\ (Len(k_blockTimes) = Blocks_historySize
           /\ k_latestLedgerNum' # k_latestLedgerNum)
            => /\ Len(k_blockTimes') = Blocks_historySize
               /\ \A i \in 1..(Blocks_historySize - 1) :
                      k_blockTimes'[i] = k_blockTimes[i + 1]]_vars

\* C20 witness: an 11th ledger was observed, 10 samples are held, and the
\* newest differs from the oldest.
C20_Witness ==
    /\ k_latestLedgerNum = Blocks_historySize + 1
    /\ Len(k_blockTimes) = Blocks_historySize
    /\ k_blockTimes[1] # k_blockTimes[Blocks_historySize]

\* C21: while blockTimes is non-empty avgBlockTimeMs is the arithmetic mean
\* of exactly the samples it holds, before the first sample it is 5000, and
\* an expectedNextBlockTime that was computed equals lastLedgerCloseTime +
\* avgBlockTimeMs (PiNetworkPrecisionClaimBot).
C21_NextCloseEstimate ==
    /\ k_avgBlockTimeMs.n > 0
    /\ k_blockTimes # <<>> =>
          k_avgBlockTimeMs.sum * Len(k_blockTimes)
              = SumSeq(k_blockTimes) * k_avgBlockTimeMs.n
    /\ k_blockTimes = <<>> =>
          k_avgBlockTimeMs.sum = Blocks_initialAvg * k_avgBlockTimeMs.n
    /\ k_expectedNextBlockTime.n # 0 =>
          k_expectedNextBlockTime.sum * k_avgBlockTimeMs.n
              = (k_lastLedgerCloseTime * k_avgBlockTimeMs.n
                    + k_avgBlockTimeMs.sum) * k_expectedNextBlockTime.n

\* C21 witness: the first of 11 ledgers closed late and its sample has been
\* dropped; the estimate was computed from the 10 samples held.
C21_Witness ==
    /\ k_latestLedgerNum = Blocks_historySize + 1
    /\ k_lastLedgerCloseTime = 57000
    /\ SumSeq(k_blockTimes) = 50000
    /\ k_expectedNextBlockTime.n = Blocks_historySize
    /\ k_expectedNextBlockTime.sum = 57000 * Blocks_historySize + 50000

\* C22: no error ends the loop of start(): in every state either a timer of
\* start() is pending and will resolve, or start() has a next step; a caught
\* error leads to the sleep and from there to the next cycle (Sweeper).
C22_LoopNeverEnds ==
    \/ /\ e_pc \in {"wait", "sleep"}
       /\ e_wakeAt - e_now <= TimerMaxSec
    \/ ENABLED Sweeper_step

\* C22 witness: a transaction was built, getLatestLedger threw before any
\* submission, the error was caught, and start() is at the poll of the next
\* cycle.
C22_Witness ==
    /\ e_pc = "poll"
    /\ e_tx.built
    /\ e_subs = <<>>
    /\ e_now >= Sweeper_errorSleep

\* C23: start() comes back to the top of its loop only out of the 5 s sleep
\* or after the last balance of the cycle; an error caught by the loop is
\* followed by a suspension before the next cycle (Loop).
C23_BackoffAfterError ==
    [][(l_pc' = "fee" /\ l_pc # "fee") => l_pc \in {"sleep", "attempt"}]_vars

C25_ErrorIsolation ==
    [][(e_pc \in {"load", "build", "ledger", "submit", "bump"}
        /\ e_idx < Len(e_balances))
            => e_pc' # "sleep"]_vars

\* C30: the first submission of every balance carries the fee that
\* updateFeeStats set in the same cycle, whatever was escalated for the
\* balances before it (Sweeper).
C30_FirstFeeIsCycleQuote ==
    (e_pc \in {"bump", "pause"} /\ e_subs # <<>>) => e_subs[1].fee = e_quote

\* C26: every transaction that is submitted was built on an account loaded
\* immediately before the build, with no unlock wait or timer between that
\* loadAccount and the build (Monitor, prepareAndSubmitTransaction).
C26_SequenceFreshAtBuild ==
    (h_lastBuild.built /\ h_lastBuild.submitted)
        => h_lastBuild.account = "loaded"

\* C27: after stop(), and until start() is called again, nothing builds
\* transactions and nothing starts a flood: no timer armed before the stop
\* does (PiNetworkPrecisionClaimBot).
C27_NothingAfterStop ==
    [][(k_stopped /\ k_stopped')
          => /\ f_transactions' = f_transactions
             /\ f_phase' = f_phase
             /\ f_copies' = f_copies]_vars

\* C28: when executeFlood has joined its copies, submissionResults holds
\* exactly one entry for each prepared transaction, accepted or rejected,
\* whatever the outcomes and the order of completion.
C28_EveryAttemptRecorded ==
    (f_phase = "finished" /\ f_outcome # "error") =>
        /\ Len(f_submissionResults) = Len(f_transactions)
        /\ \A i \in 1..Len(f_transactions) :
              Cardinality({k \in 1..Len(f_submissionResults) :
                  f_submissionResults[k].index = f_transactions[i].index}) = 1
        /\ \A k \in 1..Len(f_submissionResults) :
              \E i \in 1..Len(f_transactions) :
                  /\ f_submissionResults[k].index = f_transactions[i].index
                  /\ f_submissionResults[k].success
                        = (f_copies[i] = "accepted")

\* C28 witness: every copy was rejected, the last one first, and the flood
\* has finished with one entry for each.
C28_Witness ==
    /\ f_phase = "finished"
    /\ f_outcome = "allFailed"
    /\ Len(f_submissionResults) = TxCount
    /\ f_submissionResults[1].index = f_transactions[TxCount].index
    /\ \A k \in 1..TxCount : ~f_submissionResults[k].success

C34_AttemptsBoundedAndSequential ==
    /\ h_status.attempts <= Monitor_maxSubmissionAttempts
    /\ Cardinality({c \in 1..MaxCalls : h_calls[c].pc = "inflight"}) <= 1

\* C35: once submissionStatus.confirmed is true, submitted stays true and no
\* further submission round is issued (Monitor).
C35_ConfirmedIsTerminal ==
    [][h_status.confirmed
          => /\ h_status'.submitted
             /\ h_rounds' = h_rounds]_vars

\* C36: a prepare-only call of prepareAndSubmitTransaction, from its entry to
\* its return, issues no submission round and leaves submitted, confirmed
\* and attempts of submissionStatus as they were (Monitor).
C36_PrepareOnlyFrame ==
    [][\A c \in 1..MaxCalls :
          (/\ h_calls'[c] # h_calls[c]
           /\ \/ h_calls[c].pc = "refresh" /\ h_calls[c].prepareOnly
              \/ h_calls'[c].pc = "refresh" /\ h_calls'[c].prepareOnly)
            => /\ h_rounds' = h_rounds
               /\ h_status'.submitted = h_status.submitted
               /\ h_status'.confirmed = h_status.confirmed
               /\ h_status'.attempts = h_status.attempts]_vars

\* C36 witness: a prepare-only call has built its transaction and returned;
\* nothing was submitted.
C36_Witness ==
    /\ h_lastBuild.built
    /\ ~h_lastBuild.submitted
    /\ h_status.preparing
    /\ ~h_status.submitted
    /\ h_status.attempts = 0
    /\ h_rounds = 0
    /\ \A c \in 1..MaxCalls : h_calls[c].pc = "free"


\* C39: while the flood submits, the transactions held by its timers are in
\* non-increasing fee order from the first timer on, and the submission of
\* a position is started only when that of the position before it has been
C39_FloodOrder ==
    f_phase = "submitting" =>
        \A i \in 2..TxCount :
            /\ f_txInfos[i - 1].fee >= f_txInfos[i].fee
            /\ timerDelay(i) = timerDelay(i - 1) + Flood_txSpacingMs
            /\ submissionStarted(f_copies[i]) => submissionStarted(f_copies[i - 1])

\* the highest fee is out, the next one still waits for its timer, with
\* fees built on the text of feeStats
C39_Witness ==
    /\ f_phase = "submitting"
    /\ f_baseFee.text
    /\ submissionStarted(f_copies[1])
    /\ f_copies[2] = "timer"
    /\ f_txInfos[1].fee > f_txInfos[2].fee
    /\ f_txInfos[1].index = TxCount - 1


\* the stage a copy of the flood has reached
copyRank(copy) ==
    IF copy = "none" THEN 0 ELSE IF copy = "timer" THEN 1 ELSE 2

\* the stage executeFlood has reached
phaseRank(phase) ==
    IF phase = "idle" THEN 0
    ELSE IF phase = "preparing" THEN 1
    ELSE IF phase = "submitting" THEN 2
    ELSE 3

\* C31: whatever trigger fires, once executeFlood has set isRunning it stays
\* set, the flood never goes back to an earlier stage, its timers are armed
\* once, and no transaction whose submission was started is put on a timer
\* or submitted again
C31_FloodRunsOnce ==
    [][/\ f_isRunning => f_isRunning'
       /\ phaseRank(f_phase') >= phaseRank(f_phase)
       /\ f_phase = "submitting" => f_txInfos' = f_txInfos
       /\ \A i \in 1..TxCount : copyRank(f_copies'[i]) >= copyRank(f_copies[i])
      ]_vars

\* a flood timer of the block monitor is still pending, start() ran twice,
\* and the flood has its first submission out
C31_Witness ==
    /\ f_isRunning
    /\ f_phase = "submitting"
    /\ submissionStarted(f_copies[1])
    /\ k_floodTimers > 0
    /\ k_starts = 2
    /\ k_unlockPassed

\* C37: the step that completes executeFlood leaves no polling interval
\* installed and blockMonitoringActive false
C37_MonitoringStoppedAfterFlood ==
    [][f_phase # "finished" /\ f_phase' = "finished"
         => ~k_blockMonitorInterval' /\ ~k_blockMonitoringActive']_vars

C32_UnlockTriggersFlood ==
    /\ [][(/\ k_latestLedgerNum' > k_latestLedgerNum
            /\ k_unlockTimestamp # 0
            /\ k_unlockPassed) => f_isRunning']_vars
    /\ (/\ k_unlockTimestamp # 0
        /\ k_blockMonitorInterval
        /\ k_unlockPassed
        /\ k_latestLedgerNum < MaxWatched) ~> f_isRunning

\* start() found more than 30 s left, its prepare timer is still pending and
\* nothing was prepared, yet the flood is in: the block monitor started it on
\* a ledger observed after the unlock instant
C32_Witness ==
    /\ k_starts = 1
    /\ k_prepareTimers = 1
    /\ k_unlockPassed
    /\ k_latestLedgerNum > 0
    /\ f_isRunning
    /\ f_phase = "preparing"


\* C33: start() and checkUnlockTimeProximity invoke executeFlood no earlier
\* than 400 ms before unlockTimestamp
C33_NotBefore400ms ==
    t_trigger # "none" => t_floodAt + 400 >= t_unlock

\* the timers of checkUnlockTimeProximity run exactly 400 ms before the
\* unlock instant: the next block is expected at that instant
C33_Witness ==
    /\ t_trigger = "timer"
    /\ t_floodAt + 400 = t_unlock
    /\ t_now < t_unlock - Blocks_nextBlockLead

====
